---- MODULE Spec2Model ----
(***************************************************************************)
(* Model of the Wordle retrieval model of MIT9.66:                         *)
(*   learn_words.py   stem extraction, association learning, normalizing   *)
(*   retrieve.py      candidate scoring, soft-validity retrieval, fallback *)
(*   build_wordle.py  the game loop and its feedback computation           *)
(*                                                                         *)
(* Words are sequences of one-letter strings.  A stem key "CL|FIRST_HALF"  *)
(* is the record [stem |-> <<"C","L">>, tag |-> "FIRST_HALF"], which is    *)
(* what word_stem_key.split("|") recovers.  Python dicts keep insertion    *)
(* order, so dicts whose order the code iterates are sequences of          *)
(* [key, val] records.                                                     *)
(***************************************************************************)
EXTENDS Integers, Sequences, FiniteSets, TLC

\* ------------------------------------------------------------------------
\* Bounds of the model
\* ------------------------------------------------------------------------
\* longest corpus row sequence fed to learn_words_from_corpus
MaxRows == 2
\* largest word frequency of a corpus row
MaxFreq == 1
\* most rows of one corpus whose word has more than 4 letters (the rows
\* whose draws can fail)
MaxLongRows == 1
\* attempt_limit of wordle_game
AttemptLimit == 3

\* ------------------------------------------------------------------------
\* Generic helpers
\* ------------------------------------------------------------------------
Min(a, b) == IF a < b THEN a ELSE b

Max(a, b) == IF a > b THEN a ELSE b

RECURSIVE Pow(_, _)
Pow(b, e) == IF e = 0 THEN 1 ELSE b * Pow(b, e - 1)

Range(s) == {s[n] : n \in 1..Len(s)}

\* Python slice word[i:j] with 0-based i and exclusive j
Slice(word, i, j) == SubSeq(word, i + 1, j)

\* str.upper() on one character: the lower-case letters of the model map
\* to their capitals, every other character is left as it is
UpperChar(c) == CASE c = "a" -> "A" [] c = "b" -> "B" [] OTHER -> c

upper(word) == [n \in 1..Len(word) |-> UpperChar(word[n])]

\* ------------------------------------------------------------------------
\* learn_words.py
\* ------------------------------------------------------------------------
\* longest word the weights are scaled for
MaxWordLen == 6

\* nu = 0.9 as the fraction NuNum / NuDen
NuNum == 9

NuDen == 10

Key(stem, tag) == [stem |-> stem, tag |-> tag]

position_tag(i, midpoint) == IF i < midpoint THEN "FIRST_HALF" ELSE "SECOND_HALF"

\* d[key] = val on an insertion-ordered dict
DictSet(d, key, val) ==
    IF \E n \in 1..Len(d) : d[n].key = key
    THEN [n \in 1..Len(d) |-> IF d[n].key = key THEN [key |-> key, val |-> val] ELSE d[n]]
    ELSE Append(d, [key |-> key, val |-> val])

DictHas(d, key) == \E n \in 1..Len(d) : d[n].key = key

DictGet(d, key) == d[CHOOSE n \in 1..Len(d) : d[n].key = key].val

\* extract_word_stems with windows of up to three letters
RECURSIVE StemLoopWide(_, _, _, _)
StemLoopWide(word, i, j, word_stems) ==
    LET wl == Len(word)
        midpoint == wl \div 2
    IN  IF i >= wl THEN word_stems
        ELSE IF j >= Min(wl + 1, i + 4) THEN StemLoopWide(word, i + 1, i + 2, word_stems)
        ELSE StemLoopWide(word, i, j + 1,
                 DictSet(word_stems, Key(Slice(word, i, j), position_tag(i, midpoint)), i))

\* the two nested loops of extract_word_stems: i in range(wl),
\* j in range(i + 1, min(wl + 1, i + 3))
RECURSIVE StemLoop(_, _, _, _)
StemLoop(word, i, j, word_stems) ==
    LET wl == Len(word)
        midpoint == wl \div 2
    IN  IF i >= wl THEN word_stems
        ELSE IF j >= Min(wl + 1, i + 3) THEN StemLoop(word, i + 1, i + 2, word_stems)
        ELSE StemLoop(word, i, j + 1,
                 DictSet(word_stems, Key(Slice(word, i, j), position_tag(i, midpoint)), i))

extract_word_stems(word) == StemLoop(upper(word), 0, 1, <<>>)

\* attention_weight = freq * nu ** (position - 1), kept exact as an
\* integer in units of 1 / (NuNum * NuDen^(MaxWordLen - 1))
attention_weight(freq, position) ==
    freq * Pow(NuNum, position) * Pow(NuDen, MaxWordLen - position)

\* the "prob" field is absent until normalize_to_probabilities adds it
NoProb == [num |-> 0, den |-> 0]

HasWord(entries, word) == \E n \in 1..Len(entries) : entries[n].word = word

\* form_association that starts every key afresh instead of reading
\* assoc.get(word_stem_key, [])
form_association_fresh(word, word_stem_key, freq, assoc, position) ==
    DictSet(assoc, word_stem_key,
            <<[word |-> word, length |-> Len(word),
               freq |-> attention_weight(freq, position), prob |-> NoProb]>>)

form_association(word, word_stem_key, freq, assoc, position) ==
    LET curr_assoc == IF DictHas(assoc, word_stem_key) THEN DictGet(assoc, word_stem_key) ELSE <<>>
        w == attention_weight(freq, position)
        first == CHOOSE n \in 1..Len(curr_assoc) :
                    /\ curr_assoc[n].word = word
                    /\ \A m \in 1..(n - 1) : curr_assoc[m].word # word
        updated ==
            IF ~HasWord(curr_assoc, word)
            THEN Append(curr_assoc, [word |-> word, length |-> Len(word), freq |-> w, prob |-> NoProb])
            ELSE [curr_assoc EXCEPT ![first].freq = @ + w]
    IN  DictSet(assoc, word_stem_key, updated)

\* ln(n) in thousandths, for the word lengths of the model
LnMilli(n) == CASE n = 1 -> 0 [] n = 2 -> 693 [] n = 3 -> 1099 [] OTHER -> 1386

\* p_assoc of learn_associations in units of 1e-5; eta is in hundredths
p_assoc(wl, eta) ==
    LET raw == IF wl > 3 THEN 100000 - eta * LnMilli(wl - 3) ELSE 100000
    IN  Max(0, Min(100000, raw))

\* outcomes of np.random.rand() < p, rand() uniform in [0, 1)
Bernoulli(p) == IF p >= 100000 THEN {TRUE} ELSE IF p <= 0 THEN {FALSE} ELSE BOOLEAN

\* the stem loop of learn_associations; trials[n] is the outcome of the
\* n-th draw
RECURSIVE LearnStems(_, _, _, _, _, _)
LearnStems(word, freq, assoc, word_stems, trials, n) ==
    IF n > Len(word_stems) THEN assoc
    ELSE LearnStems(word, freq,
             IF trials[n]
             THEN form_association(word, word_stems[n].key, freq, assoc, word_stems[n].val)
             ELSE assoc,
             word_stems, trials, n + 1)

StartMarker(word) == Key(<<word[1], "*">>, "FIRST_HALF")

EndMarker(word) == Key(<<"*", word[Len(word)]>>, "SECOND_HALF")

\* learn_associations with the outcomes of its draws given: one per stem
\* key, then one for each marker
learn_associations(word, freq, assoc, trials) ==
    LET wl == Len(word)
        word_stems == extract_word_stems(word)
        k == Len(word_stems)
        a1 == LearnStems(word, freq, assoc, word_stems, trials, 1)
        a2 == IF trials[k + 1] THEN form_association(word, StartMarker(word), freq, a1, 1) ELSE a1
        a3 == IF trials[k + 2] THEN form_association(word, EndMarker(word), freq, a2, wl) ELSE a2
    IN  a3

\* the stem keys learn_associations draws for: those of extract_word_stems
\* and the two markers
StemKeysOf(word) ==
    LET word_stems == extract_word_stems(word)
    IN  [n \in 1..(Len(word_stems) + 2) |->
            IF n <= Len(word_stems) THEN word_stems[n].key
            ELSE IF n = Len(word_stems) + 1 THEN StartMarker(word)
            ELSE EndMarker(word)]

TrialsFor(word, eta) ==
    {t \in [1..(Len(extract_word_stems(word)) + 2) -> BOOLEAN] :
        \A n \in DOMAIN t : t[n] \in Bernoulli(p_assoc(Len(word), eta))}

RECURSIVE SumFreq(_, _)
SumFreq(entries, n) == IF n = 0 THEN 0 ELSE entries[n].freq + SumFreq(entries, n - 1)

\* the total that leaves the last entry out
total_freq_short(entries) == SumFreq(entries, Len(entries) - 1)

total_freq(entries) == SumFreq(entries, Len(entries))

\* entry["prob"] = entry["freq"] / total_freq, kept as the exact fraction
NormalizeEntries(entries) ==
    LET total == total_freq(entries)
    IN  [n \in 1..Len(entries) |->
            [entries[n] EXCEPT !.prob =
                IF total > 0 THEN [num |-> entries[n].freq, den |-> total]
                ELSE [num |-> 0, den |-> 1]]]

normalize_to_probabilities(assoc) ==
    [n \in 1..Len(assoc) |-> [key |-> assoc[n].key, val |-> NormalizeEntries(assoc[n].val)]]

\* ------------------------------------------------------------------------
\* retrieve.py: arithmetic
\* ------------------------------------------------------------------------
\* The floats of the scorer are fixed-point numbers with five decimals:
\* FixOne stands for 1.0.  Products and quotients truncate.
FixOne == 100000

\* sigma = 1e-5
sigma == 1

\* pos_penalty = 0.3
pos_penalty == 30000

\* floor(a * b / FixOne) without leaving 32 bits, for 0 <= a, b <= 2 * FixOne
MulFix(a, b) ==
    LET a1 == a \div 1000
        a0 == a % 1000
        h == a1 * b
    IN  (h \div 100) + (((h % 100) * 1000 + a0 * b) \div FixOne)

\* floor(t * FixOne / r) without leaving 32 bits, for r <= 2 * FixOne and
\* t < 1000 * r
MulDivOne(t, r) ==
    LET q == t \div r
        r0 == t % r
        q1 == (r0 * 1000) \div r
        r1 == (r0 * 1000) % r
        q2 == (r1 * 100) \div r
    IN  q * FixOne + q1 * 100 + q2

\* floor(a * FixOne / b), for a <= b
DivFix(a, b) == IF a = b THEN FixOne ELSE
    LET q1 == ((a % b) * 10) \div b
        r1 == ((a % b) * 10) % b
        q2 == (r1 * 10) \div b
        r2 == (r1 * 10) % b
        q3 == (r2 * 10) \div b
        r3 == (r2 * 10) % b
        q4 == (r3 * 10) \div b
        r4 == (r3 * 10) % b
        q5 == (r4 * 10) \div b
    IN  q1 * 10000 + q2 * 1000 + q3 * 100 + q4 * 10 + q5

\* guard digits of the root
Guard == 1000

\* whether (r / FixOne)^n <= x / FixOne: t runs through
\* x * FixOne^k / r^k, which only grows while r <= FixOne
RECURSIVE RootFits(_, _, _, _)
RootFits(r, t, n, k) ==
    IF r <= FixOne /\ t >= r * Guard THEN TRUE
    ELSE IF k = n - 1 THEN t >= r * Guard
    ELSE RootFits(r, MulDivOne(t, r), n, k + 1)

RECURSIVE RootBisect(_, _, _, _)
RootBisect(lo, hi, x, n) ==
    IF hi - lo <= 1 THEN lo
    ELSE LET mid == (lo + hi) \div 2
         IN  IF RootFits(mid, x * Guard, n, 0)
             THEN RootBisect(mid, hi, x, n)
             ELSE RootBisect(lo, mid, x, n)

\* x ** (1 / n), for 0 <= x <= FixOne + sigma
RootFix(x, n) == IF n = 1 THEN x ELSE RootBisect(0, FixOne + 2, x, n)

\* e = 2.71828...: whether |ln(a) - ln(b)| > 1 for lengths a, b >= 1
LogDiffAboveOne(a, b) == a * 100000 > 271828 * b \/ b * 100000 > 271828 * a

\* ------------------------------------------------------------------------
\* retrieve.py: scoring
\* ------------------------------------------------------------------------
\* an empty slot of green_letters
None == "None"

\* str.find: the 0-based offset of the first occurrence of stem, or -1
Find(word, stem) ==
    LET hits == {i \in 0..(Len(word) - Len(stem)) : Slice(word, i, i + Len(stem)) = stem}
    IN  IF hits = {} THEN -1 ELSE CHOOSE i \in hits : \A j \in hits : i <= j

\* entry["prob"] as the scorer reads it
ProbFix(entry) == DivFix(entry.prob.num, entry.prob.den)

\* the loop of adjust_probabilities_by_length
adjust_probabilities_by_length(candidate_probs, target_length) ==
    [n \in 1..Len(candidate_probs) |->
        LET word == candidate_probs[n].key
            val == candidate_probs[n].val
        IN  [key |-> word,
             val |-> IF Len(word) = target_length THEN val * 3
                     ELSE IF LogDiffAboveOne(Len(word), target_length) THEN 0
                     ELSE val]]

RECURSIVE SumVal(_, _)
SumVal(d, n) == IF n = 0 THEN 0 ELSE d[n].val + SumVal(d, n - 1)

normalize(candidate_probs) ==
    LET total_prob == SumVal(candidate_probs, Len(candidate_probs))
    IN  [n \in 1..Len(candidate_probs) |->
            [key |-> candidate_probs[n].key,
             val |-> IF total_prob > 0 THEN DivFix(candidate_probs[n].val, total_prob) ELSE 0]]

\* the branch of lines 73-77: which factor an entry multiplies in
PositionFactor(word, word_stem_key, prob) ==
    LET at == Find(word, word_stem_key.stem)
    IN  IF \/ word_stem_key.tag = "FIRST_HALF" /\ at <= Len(word) \div 2
           \/ word_stem_key.tag = "SECOND_HALF" /\ at > Len(word) \div 2
        THEN MulFix(prob, pos_penalty)
        ELSE prob

\* the inner loop over associations[word_stem_key]
RECURSIVE ScoreEntries(_, _, _, _)
ScoreEntries(candidate_probs, word_stem_key, entries, n) ==
    IF n > Len(entries) THEN candidate_probs
    ELSE LET word == entries[n].word
             old == IF DictHas(candidate_probs, word) THEN DictGet(candidate_probs, word) ELSE FixOne
             new == MulFix(old, PositionFactor(word, word_stem_key, ProbFix(entries[n])))
         IN  ScoreEntries(DictSet(candidate_probs, word, new), word_stem_key, entries, n + 1)

\* the outer loop over word_stem_keys; a key without associations is
\* reported and passed over
RECURSIVE ScoreKeys(_, _, _, _)
ScoreKeys(candidate_probs, word_stem_keys, table, n) ==
    IF n > Len(word_stem_keys) THEN candidate_probs
    ELSE IF ~DictHas(table, word_stem_keys[n])
         THEN ScoreKeys(candidate_probs, word_stem_keys, table, n + 1)
         ELSE ScoreKeys(ScoreEntries(candidate_probs, word_stem_keys[n],
                                     DictGet(table, word_stem_keys[n]), 1),
                        word_stem_keys, table, n + 1)

\* the loops of the branch without stems: candidate_probs[word] = prob
RECURSIVE TakeEntries(_, _, _)
TakeEntries(candidate_probs, entries, n) ==
    IF n > Len(entries) THEN candidate_probs
    ELSE TakeEntries(DictSet(candidate_probs, entries[n].word, ProbFix(entries[n])), entries, n + 1)

RECURSIVE TakeAll(_, _, _)
TakeAll(candidate_probs, table, n) ==
    IF n > Len(table) THEN candidate_probs
    ELSE TakeAll(TakeEntries(candidate_probs, table[n].val, 1), table, n + 1)

\* candidate_probs before smoothing
RawScores(word_stem_keys, table) ==
    IF Len(word_stem_keys) > 0
    THEN ScoreKeys(<<>>, word_stem_keys, table, 1)
    ELSE TakeAll(<<>>, table, 1)

compute_candidate_scores(word_stem_keys, target_length, table) ==
    LET raw == RawScores(word_stem_keys, table)
        n_stems == Max(1, Len(word_stem_keys))
        smoothed == [n \in 1..Len(raw) |->
                        [key |-> raw[n].key, val |-> RootFix(raw[n].val + sigma, n_stems)]]
    IN  normalize(adjust_probabilities_by_length(smoothed, target_length))

\* sorted(..., key = probs, reverse = True): descending and stable
RECURSIVE InsertDesc(_, _)
InsertDesc(sorted, item) ==
    IF sorted = <<>> THEN <<item>>
    ELSE IF Head(sorted).val >= item.val THEN <<Head(sorted)>> \o InsertDesc(Tail(sorted), item)
    ELSE <<item>> \o sorted

RECURSIVE SortDesc(_, _)
SortDesc(d, n) == IF n = 0 THEN <<>> ELSE InsertDesc(SortDesc(d, n - 1), d[n])

\* ------------------------------------------------------------------------
\* retrieve.py: hints, retrieval, fallback
\* ------------------------------------------------------------------------
\* the green loop of process_hints, pos from 0
RECURSIVE GreenStems(_, _, _)
GreenStems(green, word_length, pos) ==
    IF pos >= Len(green) THEN <<>>
    ELSE (IF green[pos + 1] # None
          THEN <<Key(<<green[pos + 1]>>, position_tag(pos, word_length \div 2))>>
          ELSE <<>>)
         \o GreenStems(green, word_length, pos + 1)

\* the stems of one yellow letter: one per position that is not invalid
RECURSIVE YellowStemsOf(_, _, _, _)
YellowStemsOf(char, invalid_positions, word_length, pos) ==
    IF pos >= word_length THEN <<>>
    ELSE (IF pos \notin invalid_positions
          THEN <<Key(<<char>>, position_tag(pos, word_length \div 2))>>
          ELSE <<>>)
         \o YellowStemsOf(char, invalid_positions, word_length, pos + 1)

RECURSIVE YellowStems(_, _, _)
YellowStems(yellow, word_length, n) ==
    IF n > Len(yellow) THEN <<>>
    ELSE YellowStemsOf(yellow[n].key, yellow[n].val, word_length, 0)
         \o YellowStems(yellow, word_length, n + 1)

process_hints(green, yellow, word_length) ==
    GreenStems(green, word_length, 0) \o YellowStems(yellow, word_length, 1)

Letters(word) == Range(word)

\* The validity of retrieve_next_valid is a product of factors 0.4, 0.2
\* and 0.1; it is kept as the numbers of factors of each kind.
\* green: 0.4 for a green letter the word lacks, 0.1 for one it has elsewhere
GreenMissing(word, green) ==
    Cardinality({i \in 1..Len(green) : green[i] # None /\ green[i] \notin Letters(word)})

GreenMisplaced(word, green) ==
    Cardinality({i \in 1..Len(green) :
        green[i] # None /\ green[i] \in Letters(word) /\ word[i] # green[i]})

\* yellow: 0.2 for a yellow letter the word lacks
YellowMissing(word, yellow) ==
    Cardinality({n \in 1..Len(yellow) : yellow[n].key \notin Letters(word)})

\* yellow: 0.1 for each recorded position where the word has the letter
YellowMisplaced(word, yellow) ==
    Cardinality({<<n, i>> \in (1..Len(yellow)) \X (0..(Len(word) - 1)) :
        i \in yellow[n].val /\ word[i + 1] = yellow[n].key})

\* gray: 0.1 for each gray letter in the word
GrayPresent(word, gray) == Cardinality(gray \cap Letters(word))

Validity(word, green, yellow, gray) ==
    [f04 |-> GreenMissing(word, green),
     f02 |-> YellowMissing(word, yellow),
     f01 |-> GreenMisplaced(word, green) + YellowMisplaced(word, yellow) + GrayPresent(word, gray)]

\* validity == 1.0: no factor was applied
IsFullyValid(v) == v.f04 + v.f02 + v.f01 = 0

\* validity > valid_threshold for valid_threshold = 1e-6, that is
\* 4^f04 * 2^f02 * 10^6 > 10^(f04 + f02 + f01); the float product of six
\* factors 0.1 is 1.0000000000000004e-06, which passes
AboveValidThreshold(v) ==
    LET k == v.f04 + v.f02 + v.f01
    IN  IF k <= 6 THEN TRUE
        ELSE IF k > 15 THEN FALSE
        ELSE Pow(4, v.f04) * Pow(2, v.f02) >= Pow(10, k - 6)

\* prob < prob_threshold: the threshold is base / 2^halvings
BelowProbThreshold(prob, threshold) == prob * Pow(2, threshold.halvings) < threshold.base

\* retrieve_next_valid when only the word it returns is added to
\* searched_words
RECURSIVE RetrieveFromLazy(_, _, _, _, _, _, _, _)
RetrieveFromLazy(green, yellow, gray, target_length, sorted, searched, threshold, n) ==
    IF n > Len(sorted) THEN {[word |-> <<>>, searched |-> searched]}
    ELSE
      LET word == sorted[n].key
          rest == RetrieveFromLazy(green, yellow, gray, target_length, sorted, searched, threshold, n + 1)
          v == Validity(word, green, yellow, gray)
      IN  IF word \in searched \/ BelowProbThreshold(sorted[n].val, threshold)
                \/ Len(word) # target_length
          THEN rest
          ELSE (IF AboveValidThreshold(v)
                THEN {[word |-> word, searched |-> searched \cup {word}]}
                ELSE {})
               \cup
               (IF ~AboveValidThreshold(v) \/ ~IsFullyValid(v) THEN rest ELSE {})

\* The outcomes of the loop of retrieve_next_valid from the n-th candidate
\* on: [word, searched_words], word = <<>> standing for None.  The draw
\* np.random.random() < validity can succeed when validity > 0 and can
\* fail when validity < 1.
RECURSIVE RetrieveFrom(_, _, _, _, _, _, _, _)
RetrieveFrom(green, yellow, gray, target_length, sorted, searched, threshold, n) ==
    IF n > Len(sorted) THEN {[word |-> <<>>, searched |-> searched]}
    ELSE
      LET word == sorted[n].key
          rest(s) == RetrieveFrom(green, yellow, gray, target_length, sorted, s, threshold, n + 1)
          v == Validity(word, green, yellow, gray)
      IN  IF word \in searched \/ BelowProbThreshold(sorted[n].val, threshold)
          THEN rest(searched)
          ELSE IF Len(word) # target_length
          THEN rest(searched \cup {word})
          ELSE (IF AboveValidThreshold(v)
                THEN {[word |-> word, searched |-> searched \cup {word}]}
                ELSE {})
               \cup
               (IF ~AboveValidThreshold(v) \/ ~IsFullyValid(v)
                THEN rest(searched \cup {word})
                ELSE {})

retrieve_next_valid(green, yellow, gray, target_length, sorted, searched, threshold) ==
    RetrieveFrom(green, yellow, gray, target_length, sorted, searched, threshold, 1)

\* string.ascii_uppercase, cut down to the letters the random strings of
\* the model are drawn from
ascii_uppercase == {"A", "E", "T"}

\* the pool of a slot with the gray letters left in
PoolWithGray(green, yellow, gray, i) ==
    (ascii_uppercase \ Range(green))
        \ {yellow[n].key : n \in {m \in 1..Len(yellow) : i \in yellow[m].val}}

\* the pool of slot i (from 0) in generate_random_word
Pool(green, yellow, gray, i) ==
    ((ascii_uppercase \ Range(green)) \ gray)
        \ {yellow[n].key : n \in {m \in 1..Len(yellow) : i \in yellow[m].val}}

\* generate_random_word when every slot draws from the letters allowed at
\* any slot instead of from its own pool
generate_random_word_shared(green, yellow, gray, target_length) ==
    IF \E i \in 0..(target_length - 1) : Pool(green, yellow, gray, i) = {}
    THEN {}
    ELSE [1..target_length -> UNION {Pool(green, yellow, gray, i) : i \in 0..(target_length - 1)}]

\* The strings generate_random_word can return; np.random.choice raises on
\* an empty pool, and then there is none.
generate_random_word(green, yellow, gray, target_length) ==
    IF \E i \in 0..(target_length - 1) : Pool(green, yellow, gray, i) = {}
    THEN {}
    ELSE {w \in [1..target_length -> ascii_uppercase] :
            \A i \in 0..(target_length - 1) : w[i + 1] \in Pool(green, yellow, gray, i)}

VowelSeeds == {<<"A", "U", "D", "I", "O">>, <<"A", "D", "I", "E", "U">>}

OptimalSeeds == {<<"S", "L", "A", "T", "E">>, <<"C", "R", "A", "N", "E">>, <<"T", "R", "A", "C", "E">>}

\* all sixteen have a positive weight in p
PopularSeeds == {<<"S", "T", "A", "R", "E">>, <<"R", "A", "I", "S", "E">>, <<"A", "R", "I", "S", "E">>,
                 <<"I", "R", "A", "T", "E">>, <<"T", "R", "A", "I", "N">>, <<"G", "R", "E", "A", "T">>,
                 <<"H", "E", "A", "R", "T">>, <<"A", "R", "O", "S", "E">>, <<"H", "O", "U", "S", "E">>,
                 <<"A", "I", "S", "L", "E">>, <<"S", "T", "E", "A", "M">>, <<"L", "E", "A", "S", "T">>,
                 <<"C", "R", "A", "T", "E">>, <<"T", "E", "A", "R", "S">>, <<"S", "A", "L", "E", "T">>,
                 <<"D", "R", "E", "A", "M">>}

\* the words of the entries of the table whose length is target_length
WordPool(table, target_length) ==
    UNION {{table[n].val[m].word : m \in {k \in 1..Len(table[n].val) :
                                            Len(table[n].val[k].word) = target_length}}
           : n \in 1..Len(table)}

NoHints(green, yellow, gray) ==
    /\ \A i \in 1..Len(green) : green[i] = None
    /\ yellow = <<>>
    /\ gray = {}

\* a call that raises: at the start word (lines 261, 263), at the unpacking
\* of the candidates (line 274) or at the random string (line 222)
Raise(kind) == [kind |-> kind, word |-> <<>>, searched |-> {}]

Raises == {"raise_start", "raise_unpack", "raise_pool"}

\* the start word when an unknown strategy is given a default
StartWordsLenient(target_length, table, strategy) ==
    IF target_length = 5 /\ strategy = "vowels" THEN VowelSeeds
    ELSE IF target_length = 5 /\ strategy = "optimal" THEN OptimalSeeds
    ELSE IF strategy = "random" THEN WordPool(table, target_length)
    ELSE PopularSeeds

\* lines 243-266: the start word, or the error
StartWords(target_length, table, strategy) ==
    IF target_length = 5 /\ strategy = "vowels" THEN VowelSeeds
    ELSE IF target_length = 5 /\ strategy = "optimal" THEN OptimalSeeds
    ELSE IF strategy = "popular" THEN PopularSeeds
    ELSE IF strategy = "random" THEN WordPool(table, target_length)
    ELSE {}

\* The outcomes of one call of find_answer: [kind, word, searched], kind
\* being "start", "candidate", "random" or "raise".
find_answer(green, yellow, gray, truth, table, searched, threshold, strategy) ==
    LET target_length == Len(truth) IN
    IF NoHints(green, yellow, gray)
    THEN LET starts == StartWords(target_length, table, strategy)
         IN  IF starts = {} THEN {Raise("raise_start")}
             ELSE {[kind |-> "start", word |-> w, searched |-> searched] : w \in starts}
    ELSE
      LET word_stem_keys == process_hints(green, yellow, target_length)
          candidate_probs == compute_candidate_scores(word_stem_keys, target_length, table)
          sorted == SortDesc(candidate_probs, Len(candidate_probs))
          found == retrieve_next_valid(green, yellow, gray, target_length, sorted, searched, threshold)
          randoms == generate_random_word(green, yellow, gray, target_length)
      IN  \* words, probs = zip(*candidate_probs.items()) cannot unpack nothing
          IF candidate_probs = <<>> THEN {Raise("raise_unpack")}
          ELSE UNION {
                 IF r.word # <<>>
                 THEN {[kind |-> "candidate", word |-> r.word, searched |-> r.searched]}
                 ELSE IF randoms = {} THEN {Raise("raise_pool")}
                 ELSE {[kind |-> "random", word |-> w, searched |-> r.searched] : w \in randoms}
                 : r \in found}

\* ------------------------------------------------------------------------
\* State
\* ------------------------------------------------------------------------
VARIABLES
    \* learn_words_from_corpus
    eta,            \* learning decay, in hundredths
    corpus,         \* the corpus of the game's table (not used when the rows are free)
    assoc,          \* the table being learned
    row,            \* the corpus row handled last
    nrows,          \* rows handled so far
    nlong,          \* rows handled so far with a word of more than 4 letters
    word_stems,     \* stem keys drawn for the row handled last
    raised,         \* whether the row handled last raised (and was skipped)
    lpc,            \* "learning", "saved"
    \* wordle_game
    associations, ground_truth, start_strategy, auto,
    attempts, green_letters, yellow_letters, gray_letters,
    searched_words, guess_list, prob_threshold,
    calls,          \* calls of find_answer so far
    hints_in,       \* the hints the last find_answer call was given
    outcome,        \* how the last find_answer call ended
    returned,       \* the word the last find_answer call returned, if any
    pc              \* "idle", "playing", "won", "lost", "raised", "no_model"

learnVars == <<eta, corpus, assoc, row, nrows, nlong, word_stems, raised, lpc>>

gameVars == <<associations, ground_truth, start_strategy, auto, attempts,
              green_letters, yellow_letters, gray_letters, searched_words,
              guess_list, prob_threshold, calls, hints_in, outcome, returned, pc>>

vars == <<learnVars, gameVars>>

\* ------------------------------------------------------------------------
\* learn_words_from_corpus as a state machine: one action per corpus row,
\* then normalisation and saving
\* ------------------------------------------------------------------------
\* the words a corpus row may carry: the empty cell, words of letters, and
\* a word with a character that is no letter
LearnWords == {<<>>, <<"A", "B">>, <<"A", "-", "A">>, <<"A", "A", "A", "A", "A">>}

IsLong(word) == Len(word) > 4

\* a free row of the corpus: numeric is FALSE when the Frequency cell is not a
\* number; the long words come with frequency 1 only
Rows == {[Word |-> w, Frequency |-> f, numeric |-> TRUE] :
            w \in {x \in LearnWords : ~IsLong(x)}, f \in 0..MaxFreq}
        \cup {[Word |-> w, Frequency |-> 1, numeric |-> TRUE] : w \in {x \in LearnWords : IsLong(x)}}
        \cup {[Word |-> w, Frequency |-> 0, numeric |-> FALSE] : w \in LearnWords}

NoRow == [Word |-> <<>>, Frequency |-> 0, numeric |-> TRUE]

\* eta of two of the runs of __main__: 0.0 and 0.6
Etas == {0, 60}

IdleGame ==
    /\ associations = <<>>
    /\ ground_truth = <<>>
    /\ start_strategy = "vowels"
    /\ auto = TRUE
    /\ attempts = 0
    /\ green_letters = <<>>
    /\ yellow_letters = <<>>
    /\ gray_letters = {}
    /\ searched_words = {}
    /\ guess_list = <<>>
    /\ prob_threshold = [base |-> 0, halvings |-> 0]
    /\ calls = 0
    /\ hints_in = [green |-> <<>>, yellow |-> <<>>, gray |-> {}]
    /\ outcome = "none"
    /\ returned = <<>>
    /\ pc = "idle"

InitLearn ==
    /\ eta \in Etas
    /\ corpus = <<>>
    /\ assoc = <<>>
    /\ row = NoRow
    /\ nrows = 0
    /\ nlong = 0
    /\ word_stems = <<>>
    /\ raised = FALSE
    /\ lpc = "learning"
    /\ IdleGame

\* whether learn_associations raises on the row: "" has no word[0]; a
\* Frequency that is no number cannot be multiplied by nu ** (position - 1)
\* in the first association formed
RowRaises(r, trials) ==
    \/ Len(r.Word) = 0
    \/ ~r.numeric /\ \E n \in DOMAIN trials : trials[n]

\* one iteration of the loop of learn_words_from_corpus
LearnRow ==
    /\ lpc = "learning"
    /\ nrows < MaxRows
    /\ \E r \in Rows : \E trials \in TrialsFor(r.Word, eta) :
          /\ IsLong(r.Word) => nlong < MaxLongRows
          /\ nlong' = IF IsLong(r.Word) THEN nlong + 1 ELSE nlong
          /\ row' = r
          /\ raised' = RowRaises(r, trials)
          /\ assoc' = IF r.numeric /\ Len(r.Word) > 0
                       THEN learn_associations(r.Word, r.Frequency, assoc, trials)
                       ELSE assoc
          /\ word_stems' = IF Len(r.Word) > 0 THEN StemKeysOf(r.Word) ELSE <<>>
    /\ nrows' = nrows + 1
    /\ UNCHANGED <<eta, corpus, lpc, gameVars>>

\* the end of the loop: normalize_to_probabilities, then json.dump
NormalizeAndSave ==
    /\ lpc = "learning"
    /\ assoc' = normalize_to_probabilities(assoc)
    /\ lpc' = "saved"
    /\ UNCHANGED <<eta, corpus, row, nrows, nlong, word_stems, raised, gameVars>>

NextLearn == LearnRow \/ NormalizeAndSave

SpecLearn == InitLearn /\ [][NextLearn]_vars

\* ------------------------------------------------------------------------
\* build_wordle.py: wordle_game as a state machine, one action per pass
\* through the body of its loop
\* ------------------------------------------------------------------------
CorpusRow(w, f) == [Word |-> w, Frequency |-> f, numeric |-> TRUE]

\* the corpora whose tables the games of the model are played with
GameCorpora == {
    <<>>,
    <<CorpusRow(<<"A", "T">>, 1)>>,
    <<CorpusRow(<<"A", "T">>, 1), CorpusRow(<<"T", "E", "A">>, 2), CorpusRow(<<"E", "A", "T">>, 1)>>,
    <<CorpusRow(<<"S", "T", "A", "T", "E">>, 2), CorpusRow(<<"T", "A", "S", "T", "E">>, 1),
      CorpusRow(<<"S", "E", "A">>, 1)>>}

\* the ground truths of the model
Truths == {<<"T", "A">>, <<"E", "A", "T">>, <<"T", "A", "S", "T", "E">>}

\* what a player may type in manual mode
ManualWords == {<<"A", "T">>, <<"T", "A">>, <<"T", "E", "A">>, <<"E", "A", "T">>,
                <<"S", "T", "A", "T", "E">>, <<"T", "A", "S", "T", "E">>}

\* the four strategies and a name that is none of them
Strategies == {"vowels", "optimal", "popular", "random", "greedy"}

\* prob_threshold of the call, in units of 1e-5: the default 0.001, and 0.4
ThresholdBases == {100, 40000}

\* The table of a game is learned first: learn_words_from_corpus with
\* eta = 0 on one of the corpora.
Init ==
    /\ eta = 0
    /\ corpus \in GameCorpora
    /\ assoc = <<>>
    /\ row = NoRow
    /\ nrows = 0
    /\ nlong = 0
    /\ word_stems = <<>>
    /\ raised = FALSE
    /\ lpc = "learning"
    /\ IdleGame

\* one iteration of the loop of learn_words_from_corpus on the next row of
\* the corpus of the game
LearnCorpusRow ==
    /\ lpc = "learning"
    /\ nrows < Len(corpus)
    /\ \E trials \in TrialsFor(corpus[nrows + 1].Word, eta) :
          assoc' = learn_associations(corpus[nrows + 1].Word, corpus[nrows + 1].Frequency,
                                      assoc, trials)
    /\ row' = corpus[nrows + 1]
    /\ word_stems' = StemKeysOf(corpus[nrows + 1].Word)
    /\ nrows' = nrows + 1
    /\ UNCHANGED <<eta, corpus, nlong, raised, lpc, gameVars>>

\* the table is normalized and saved (lines 139-146), loaded again
\* (__main__ of build_wordle.py), and wordle_game is entered: lines 53-65
StartGame ==
    /\ lpc = "learning"
    /\ nrows = Len(corpus)
    /\ pc = "idle"
    /\ assoc' = normalize_to_probabilities(assoc)
    /\ lpc' = "saved"
    /\ associations' = normalize_to_probabilities(assoc)
    /\ ground_truth' \in Truths
    /\ start_strategy' \in Strategies
    /\ auto' \in BOOLEAN
    /\ attempts' = 0
    /\ green_letters' = [i \in 1..Len(ground_truth') |-> None]
    /\ yellow_letters' = <<>>
    /\ gray_letters' = {}
    /\ searched_words' = {}
    /\ guess_list' = <<>>
    /\ prob_threshold' \in {[base |-> b, halvings |-> 0] : b \in ThresholdBases}
    /\ pc' = "playing"
    /\ UNCHANGED <<eta, corpus, row, nrows, nlong, word_stems, raised,
                   calls, hints_in, outcome, returned>>

\* green_letters when the new matches replace the old
NewGreenOnly(guess, truth, green) ==
    [i \in 1..Len(green) |-> IF guess[i] = truth[i] THEN guess[i] ELSE None]

\* lines 113-116: green_letters after the guess
NewGreen(guess, truth, green) ==
    [i \in 1..Len(green) |->
        IF green[i] # None THEN green[i]
        ELSE IF guess[i] = truth[i] THEN guess[i] ELSE None]

\* lines 120-124, from the i-th letter (from 0) of the guess on
RECURSIVE NewYellow(_, _, _, _)
NewYellow(guess, truth, yellow, i) ==
    IF i >= Len(guess) THEN yellow
    ELSE LET char == guess[i + 1]
             old == IF DictHas(yellow, char) THEN DictGet(yellow, char) ELSE {}
         IN  IF char \in Range(truth) /\ char # truth[i + 1]
             THEN NewYellow(guess, truth, DictSet(yellow, char, old \cup {i}), i + 1)
             ELSE NewYellow(guess, truth, yellow, i + 1)

\* gray_letters when every letter that is not green at its slot is added
NewGrayNotGreen(guess, truth, gray) ==
    gray \cup {guess[i] : i \in {j \in 1..Len(guess) : guess[j] # truth[j]}}

\* lines 123-124
NewGray(guess, truth, gray) == gray \cup {c \in Range(guess) : c \notin Range(truth)}

\* prob_threshold /= 2
Halved(threshold) == [threshold EXCEPT !.halvings = Min(@ + 1, AttemptLimit + 1)]

\* the tail of the loop body when the guess is not added to searched_words
RecordUnsearched(guess, searched) ==
    /\ searched_words' = searched
    /\ guess_list' = Append(guess_list, guess)
    /\ attempts' = attempts + 1
    /\ IF guess = ground_truth
       THEN /\ pc' = "won"
            /\ UNCHANGED <<green_letters, yellow_letters, gray_letters>>
       ELSE /\ green_letters' = NewGreen(guess, ground_truth, green_letters)
            /\ yellow_letters' = NewYellow(guess, ground_truth, yellow_letters, 0)
            /\ gray_letters' = NewGray(guess, ground_truth, gray_letters)
            /\ pc' = IF attempts + 1 < AttemptLimit THEN "playing" ELSE "lost"

\* lines 103-131: the guess is recorded and judged, the hints are updated,
\* and the loop ends when the attempts are used up
Record(guess, searched) ==
    /\ searched_words' = searched \cup {guess}
    /\ guess_list' = Append(guess_list, guess)
    /\ attempts' = attempts + 1
    /\ IF guess = ground_truth
       THEN /\ pc' = "won"
            /\ UNCHANGED <<green_letters, yellow_letters, gray_letters>>
       ELSE /\ green_letters' = NewGreen(guess, ground_truth, green_letters)
            /\ yellow_letters' = NewYellow(guess, ground_truth, yellow_letters, 0)
            /\ gray_letters' = NewGray(guess, ground_truth, gray_letters)
            /\ pc' = IF attempts + 1 < AttemptLimit THEN "playing" ELSE "lost"

\* the table when the scorer multiplies pos_penalty into entry["prob"] of
\* the entries under the active stem keys instead of into its own product
PenalizedInPlace(table, word_stem_keys) ==
    [n \in 1..Len(table) |->
        IF table[n].key \in Range(word_stem_keys)
        THEN [key |-> table[n].key,
              val |-> [m \in 1..Len(table[n].val) |->
                          [table[n].val[m] EXCEPT !.prob = [num |-> 3 * @.num, den |-> 10 * @.den]]]]
        ELSE table[n]]

\* the pass of ModelTurn with a scorer that writes into the table
ModelTurnInPlace ==
    /\ pc = "playing"
    /\ attempts < AttemptLimit
    /\ associations # <<>>
    /\ calls' = Min(calls + 1, AttemptLimit + 1)
    /\ hints_in' = [green |-> green_letters, yellow |-> yellow_letters, gray |-> gray_letters]
    /\ associations' =
          IF NoHints(green_letters, yellow_letters, gray_letters) THEN associations
          ELSE PenalizedInPlace(associations,
                                process_hints(green_letters, yellow_letters, Len(ground_truth)))
    /\ \E o \in find_answer(green_letters, yellow_letters, gray_letters, ground_truth,
                            associations, searched_words, prob_threshold, start_strategy) :
          /\ outcome' = o.kind
          /\ returned' = o.word
          /\ IF o.kind \in Raises
             THEN /\ pc' = "raised"
                  /\ UNCHANGED <<attempts, green_letters, yellow_letters, gray_letters,
                                 searched_words, guess_list, prob_threshold>>
             ELSE /\ prob_threshold' = Halved(prob_threshold)
                  /\ IF Len(o.word) # Len(ground_truth)
                     THEN /\ searched_words' = o.searched
                          /\ UNCHANGED <<attempts, green_letters, yellow_letters, gray_letters,
                                         guess_list, pc>>
                     ELSE Record(o.word, o.searched)
    /\ UNCHANGED <<ground_truth, start_strategy, auto, learnVars>>

\* a pass in which find_answer is called: lines 74-78 (auto) or 87-91
\* (the player pressed ENTER), then lines 97-131.  The count of calls
\* stops at AttemptLimit + 1.
ModelTurn ==
    /\ pc = "playing"
    /\ attempts < AttemptLimit
    /\ associations # <<>>
    /\ calls' = Min(calls + 1, AttemptLimit + 1)
    /\ hints_in' = [green |-> green_letters, yellow |-> yellow_letters, gray |-> gray_letters]
    /\ \E o \in find_answer(green_letters, yellow_letters, gray_letters, ground_truth,
                            associations, searched_words, prob_threshold, start_strategy) :
          /\ outcome' = o.kind
          /\ returned' = o.word
          /\ IF o.kind \in Raises
             THEN /\ pc' = "raised"
                  /\ UNCHANGED <<attempts, green_letters, yellow_letters, gray_letters,
                                 searched_words, guess_list, prob_threshold>>
             ELSE /\ prob_threshold' = Halved(prob_threshold)
                  /\ IF Len(o.word) # Len(ground_truth)
                     THEN /\ searched_words' = o.searched
                          /\ UNCHANGED <<attempts, green_letters, yellow_letters, gray_letters,
                                         guess_list, pc>>
                     ELSE Record(o.word, o.searched)
    /\ UNCHANGED <<associations, ground_truth, start_strategy, auto, learnVars>>

\* lines 79-81: auto mode without a table ends the game
NoModel ==
    /\ pc = "playing"
    /\ attempts < AttemptLimit
    /\ auto
    /\ associations = <<>>
    /\ attempts' = attempts + 1
    /\ pc' = "no_model"
    /\ UNCHANGED <<associations, ground_truth, start_strategy, auto, green_letters,
                   yellow_letters, gray_letters, searched_words, guess_list,
                   prob_threshold, calls, hints_in, outcome, returned, learnVars>>

\* lines 84 and 97-131: the player typed a word of the right length (one
\* of another length is refused and changes nothing)
ManualTurn ==
    /\ pc = "playing"
    /\ attempts < AttemptLimit
    /\ ~auto
    /\ \E guess \in ManualWords :
          /\ Len(guess) = Len(ground_truth)
          /\ Record(guess, searched_words)
    /\ UNCHANGED <<associations, ground_truth, start_strategy, auto, prob_threshold,
                   calls, hints_in, outcome, returned, learnVars>>

Next == LearnCorpusRow \/ StartGame \/ ModelTurn \/ NoModel \/ ManualTurn

Spec == Init /\ [][Next]_vars

\* ------------------------------------------------------------------------
\* Claims about retrieval and the game
\* ------------------------------------------------------------------------
KnownStrategies == {"vowels", "optimal", "popular", "random"}

\* find_answer has been called, and hints_in, outcome and returned tell of
\* the last call
Called == calls > 0

HintsGiven == Called /\ ~NoHints(hints_in.green, hints_in.yellow, hints_in.gray)

Returned == Called /\ outcome \in {"start", "candidate", "random"}

HasGray(word, gray) == \E i \in 1..Len(word) : word[i] \in gray

HasYellowAtInvalid(word, yellow) ==
    \E n \in 1..Len(yellow) : \E i \in yellow[n].val :
        i + 1 <= Len(word) /\ word[i + 1] = yellow[n].key

\* C1 as claimed: for every hint state, each of the four strategies and
\* every target length, find_answer returns a word of exactly target_length
\* letters (and so does not raise).
C1_AlwaysReturnsWordOfLength ==
    (Called /\ start_strategy \in KnownStrategies) =>
        (outcome \notin Raises /\ Len(returned) = Len(ground_truth))

\* C2 as claimed: with non-empty hints, the word find_answer returns has no
\* gray letter and no yellow letter at a position recorded as invalid for it.
C2_ReturnedHonoursHints ==
    (HintsGiven /\ Returned) =>
        (~HasGray(returned, hints_in.gray) /\ ~HasYellowAtInvalid(returned, hints_in.yellow))

\* C2 as amended: with non-empty hints, the word find_answer returns has
\* the target length, and when it is a synthesized random string it has no
\* gray letter and no yellow letter at a position recorded as invalid for
\* it; a table candidate may break either hint.
C2_RandomHonoursHints ==
    (HintsGiven /\ Returned) =>
        /\ Len(returned) = Len(ground_truth)
        /\ outcome = "random" =>
              (~HasGray(returned, hints_in.gray) /\ ~HasYellowAtInvalid(returned, hints_in.yellow))

\* a random string returned under hints that hold gray and yellow letters
\* of the alphabet
C2_Witness ==
    /\ HintsGiven
    /\ outcome = "random"
    /\ hints_in.gray \cap ascii_uppercase # {}
    /\ \E n \in 1..Len(hints_in.yellow) : hints_in.yellow[n].key \in ascii_uppercase

GreenNeverGray ==
    \A i \in 1..Len(green_letters) : green_letters[i] # None => green_letters[i] \notin gray_letters

GreenKept ==
    \A i \in 1..Len(green_letters) : green_letters[i] # None => green_letters'[i] = green_letters[i]

\* C3: across the turns of a session, green[i] once set to a letter never
\* changes, and no letter that is in green is ever in gray.
C3_GreenMonotone == [](GreenNeverGray) /\ [][GreenKept]_vars

\* a session of two guesses and more with a green letter and a gray letter
C3_Witness ==
    /\ Len(guess_list) >= 2
    /\ \E i \in 1..Len(green_letters) : green_letters[i] # None
    /\ gray_letters # {}

\* C4 as claimed: in auto mode with a non-empty table the game calls
\* find_answer at most attempt_limit times and ends only by a guess that
\* equals the ground truth or by attempt_limit guesses made.
C4_AutoGameEnds ==
    (auto /\ associations # <<>> /\ start_strategy \in KnownStrategies) =>
        /\ calls <= AttemptLimit
        /\ pc \in {"playing", "won", "lost"}
        /\ pc = "won" => guess_list[Len(guess_list)] = ground_truth
        /\ pc = "lost" => Len(guess_list) = AttemptLimit

\* C5: in an auto-mode session no word is submitted twice.
C5_NoGuessTwice ==
    auto => \A i \in 1..Len(guess_list) : \A j \in 1..Len(guess_list) :
                i < j => guess_list[i] # guess_list[j]

\* an auto-mode session of three guesses, the last one a table candidate
C5_Witness ==
    /\ auto
    /\ Len(guess_list) = 3
    /\ outcome = "candidate"

\* C6 as claimed: with non-empty hints, whenever no table candidate is
\* accepted, find_answer returns a synthesized random string and raises no
\* error.
C6_FallbackNeverRaises ==
    (HintsGiven /\ outcome # "candidate") => outcome = "random"

\* C7 as claimed: generate_random_word never raises.
C7_RandomWordNeverRaises == outcome # "raise_pool"

\* C8 as claimed: with a start_strategy outside the four names find_answer
\* raises and returns no guess, whatever the hint state.
C8_UnknownStrategyRaises ==
    (Called /\ start_strategy \notin KnownStrategies) =>
        (outcome \in Raises /\ returned = <<>>)

\* C8 as amended: with a start_strategy outside the four names find_answer
\* raises and returns no guess when the hint state is empty.
C8_UnknownStrategyRaisesAtStart ==
    (Called /\ start_strategy \notin KnownStrategies
        /\ NoHints(hints_in.green, hints_in.yellow, hints_in.gray)) =>
        (outcome = "raise_start" /\ returned = <<>>)

\* a call with an unknown strategy and no hints that raised
C8_Witness ==
    /\ Called
    /\ start_strategy \notin KnownStrategies
    /\ NoHints(hints_in.green, hints_in.yellow, hints_in.gray)
    /\ outcome = "raise_start"

\* while a game is played the table stays as it was loaded
TableKept == pc = "playing" => associations' = associations

\* while a game is played the hints change only by the feedback of
\* wordle_game on the guess just recorded, computed from the hints as they
\* were before the pass
HintsByFeedbackOnly ==
    pc = "playing" =>
        IF Len(guess_list') = Len(guess_list) + 1 /\ pc' # "won"
        THEN LET guess == guess_list'[Len(guess_list')]
             IN  /\ green_letters' = NewGreen(guess, ground_truth, green_letters)
                 /\ yellow_letters' = NewYellow(guess, ground_truth, yellow_letters, 0)
                 /\ gray_letters' = NewGray(guess, ground_truth, gray_letters)
        ELSE UNCHANGED <<green_letters, yellow_letters, gray_letters>>

\* C12: retrieval is read-only on its inputs other than searched_words: a
\* call of find_answer (and of compute_candidate_scores within it) leaves the
\* association table and the green, yellow and gray hints unchanged; the
\* hints change only by the game's own feedback on the guess.
C12_RetrievalReadOnly == [][TableKept /\ HintsByFeedbackOnly]_vars

\* a call under hints that went through the scorer and returned a table
\* candidate, after which the hints grew
C12_Witness ==
    /\ HintsGiven
    /\ outcome = "candidate"
    /\ Len(hints_in.yellow) > 0
    /\ yellow_letters # hints_in.yellow
    /\ associations # <<>>

\* C14: after any sequence of guesses in a session the ground truth
\* satisfies the accumulated hint state: every non-empty green slot i holds
\* truth[i], every gray letter is absent from the truth, and every yellow
\* letter occurs in the truth and at none of the positions recorded as
\* invalid for it.
C14_TruthSatisfiesHints ==
    pc # "idle" =>
        /\ Len(green_letters) = Len(ground_truth)
        /\ \A i \in 1..Len(green_letters) :
              green_letters[i] # None => green_letters[i] = ground_truth[i]
        /\ gray_letters \cap Range(ground_truth) = {}
        /\ \A n \in 1..Len(yellow_letters) :
              /\ yellow_letters[n].key \in Range(ground_truth)
              /\ \A i \in yellow_letters[n].val :
                    i < Len(ground_truth) /\ ground_truth[i + 1] # yellow_letters[n].key

\* a session whose guesses left a green slot, a gray letter and a yellow
\* letter with two invalid positions
C14_Witness ==
    /\ pc \in {"playing", "lost"}
    /\ \E i \in 1..Len(green_letters) : green_letters[i] # None
    /\ gray_letters # {}
    /\ \E n \in 1..Len(yellow_letters) : Cardinality(yellow_letters[n].val) >= 2

\* the stem keys the last call of find_answer gave to the scorer
ActiveStemKeys == process_hints(hints_in.green, hints_in.yellow, Len(ground_truth))

\* the half in which the bare stem is found in the word, tagged as
\* extract_word_stems tags an offset
FoundHalf(word, stem) == position_tag(Find(word, stem), Len(word) \div 2)

\* C15 as claimed: in compute_candidate_scores, for an active stem key and
\* a table entry under it, the factor multiplied into the word's accumulator
\* is probability * pos_penalty exactly when the key's half tag does not
\* match the half in which the bare stem is found in the word, and the plain
\* probability when the tag matches.
C15_PenaltyOnMismatch ==
    HintsGiven =>
        \A n \in 1..Len(ActiveStemKeys) :
            LET key == ActiveStemKeys[n]
            IN  DictHas(associations, key) =>
                    \A m \in 1..Len(DictGet(associations, key)) :
                        LET entry == DictGet(associations, key)[m]
                        IN  PositionFactor(entry.word, key, ProbFix(entry)) =
                                IF key.tag # FoundHalf(entry.word, key.stem)
                                THEN MulFix(ProbFix(entry), pos_penalty)
                                ELSE ProbFix(entry)

\* The raw scores of a scorer run under the green and yellow hints of the
\* last call and the gray set given: compute_candidate_scores has no
\* gray_letters parameter and compute_gray_penalty is called nowhere, so the
\* gray set does not enter.
ScorerRun(gray) == RawScores(ActiveStemKeys, associations)

\* C16 as claimed: the raw score of a candidate word is multiplied by
\* gray_penalty_factor raised to the number of its letters that are gray, so
\* of two scorer runs that differ only in the gray-letter set the one with a
\* newly gray letter gives a word containing that letter a strictly lower
\* raw score (for gray_penalty_factor < 1 and a score that is not zero).
C16_GrayLowersScore ==
    HintsGiven =>
        \A g \in hints_in.gray :
            LET with == ScorerRun(hints_in.gray)
                without == ScorerRun(hints_in.gray \ {g})
            IN  \A n \in 1..Len(without) :
                    (g \in Range(without[n].key) /\ without[n].val > 0) =>
                        DictGet(with, without[n].key) < without[n].val

\* the scores of the call that find_answer makes in the current state
ScoresNow ==
    compute_candidate_scores(process_hints(green_letters, yellow_letters, Len(ground_truth)),
                             Len(ground_truth), associations)

\* a pass of the game loop in which find_answer was called with the hints
\* of the session and fell back to a random string, which became the guess
RandomReturned ==
    /\ pc = "playing"
    /\ outcome' = "random"
    /\ hints_in' = [green |-> green_letters, yellow |-> yellow_letters, gray |-> gray_letters]
    /\ guess_list' = Append(guess_list, returned')

\* every scored word of the target length with score >= prob_threshold has
\* been considered when the random string is made: it is in searched_words,
\* and if it was not there before the call the candidate pass could refuse it
\* (a word that satisfies every hint is returned for certain)
NoCandidateLeft ==
    \A scores \in {ScoresNow} : \A n \in 1..Len(scores) :
        LET word == scores[n].key
        IN  (Len(word) = Len(ground_truth) /\ ~BelowProbThreshold(scores[n].val, prob_threshold)) =>
                /\ word \in searched_words'
                /\ word \notin searched_words =>
                      ~IsFullyValid(Validity(word, green_letters, yellow_letters, gray_letters))

\* C18: the fallback tiers are tried in strict order: find_answer returns a
\* synthesized random string only after the candidate pass has failed and
\* no unsearched word of the target length with score >= prob_threshold
\* remains; while such a word remains, a table word is returned instead.
C18_RandomStringLast == [][RandomReturned => NoCandidateLeft]_vars

\* a random string returned after the candidate pass had considered and
\* refused a scored table word of the target length
C18_Witness ==
    /\ HintsGiven
    /\ outcome = "random"
    /\ \E word \in searched_words \ Range(guess_list) : Len(word) = Len(ground_truth)

\* C19: every string that generate_random_word returns has exactly
\* target_length letters, contains no gray letter, and has no yellow letter
\* at one of that letter's recorded invalid positions (checked for every
\* string it can return under the hints of a call, the one returned among
\* them).
C19_RandomWordWithinHints ==
    HintsGiven =>
        \A randoms \in {generate_random_word(hints_in.green, hints_in.yellow, hints_in.gray,
                                              Len(ground_truth))} :
            /\ \A w \in randoms :
                  /\ Len(w) = Len(ground_truth)
                  /\ ~HasGray(w, hints_in.gray)
                  /\ ~HasYellowAtInvalid(w, hints_in.yellow)
            /\ outcome = "random" => returned \in randoms

\* a random string returned that holds a yellow letter, away from the
\* positions recorded for it, under hints with a gray letter of the alphabet
C19_Witness ==
    /\ outcome = "random"
    /\ hints_in.gray \cap ascii_uppercase # {}
    /\ \E n \in 1..Len(hints_in.yellow) :
          /\ hints_in.yellow[n].val # {}
          /\ hints_in.yellow[n].key \in Range(returned)

\* ------------------------------------------------------------------------
\* Claims about learning
\* ------------------------------------------------------------------------
RECURSIVE WeightSum(_)
WeightSum(entries) ==
    IF entries = <<>> THEN 0 ELSE Head(entries).freq + WeightSum(Tail(entries))

RECURSIVE NumSum(_)
NumSum(entries) ==
    IF entries = <<>> THEN 0 ELSE Head(entries).prob.num + NumSum(Tail(entries))

SumsToOne(entries) ==
    /\ \A n \in 1..Len(entries) :
          /\ entries[n].prob.den = WeightSum(entries)
          /\ entries[n].prob.num = entries[n].freq
    /\ NumSum(entries) = WeightSum(entries)

AllZero(entries) ==
    \A n \in 1..Len(entries) : entries[n].prob = [num |-> 0, den |-> 1]

\* C9: after normalize_to_probabilities, under every stem key the
\* probabilities are weight / total weight of the key and sum to 1, or they
\* are all exactly 0, and they are all 0 exactly when the total weight of
\* the key is zero.
C9_NormalizedMass ==
    lpc = "saved" =>
        \A n \in 1..Len(assoc) :
            LET entries == assoc[n].val
            IN  /\ WeightSum(entries) > 0 => SumsToOne(entries)
                /\ AllZero(entries) <=> WeightSum(entries) = 0

\* a saved table with a key of two entries that holds positive probability,
\* and a key whose whole weight is zero
C9_Witness ==
    /\ lpc = "saved"
    /\ \E n \in 1..Len(assoc) :
          Len(assoc[n].val) = 2 /\ assoc[n].val[1].prob.num > 0
    /\ \E n \in 1..Len(assoc) : WeightSum(assoc[n].val) = 0

IsWindowOf(w, k) ==
    \E i \in 0..(Len(w) - 1) : \E l \in 1..2 :
        /\ i + l <= Len(w)
        /\ k.stem = Slice(w, i, i + l)
        /\ k.tag = IF i < Len(w) \div 2 THEN "FIRST_HALF" ELSE "SECOND_HALF"

IsMarkerOf(w, k) ==
    \/ k = [stem |-> <<w[1], "*">>, tag |-> "FIRST_HALF"]
    \/ k = [stem |-> <<"*", w[Len(w)]>>, tag |-> "SECOND_HALF"]

\* C10: the stem keys of a word are only position-tagged windows of one or
\* two letters of the word plus exactly two boundary markers (starts-with
\* first letter, ends-with last letter), and every offset of the word is
\* the start of at least one of the windows.
C10_StemsCoverWord ==
    (lpc = "learning" /\ nrows > 0 /\ Len(row.Word) > 0) =>
        LET w == row.Word
        IN  /\ \A n \in 1..Len(word_stems) :
                  IsWindowOf(w, word_stems[n]) \/ IsMarkerOf(w, word_stems[n])
            /\ Cardinality({n \in 1..Len(word_stems) : IsMarkerOf(w, word_stems[n])}) = 2
            /\ \A i \in 0..(Len(w) - 1) :
                  \E n \in 1..Len(word_stems) : \E l \in 1..2 :
                      /\ i + l <= Len(w)
                      /\ word_stems[n].stem = Slice(w, i, i + l)
                      /\ word_stems[n].tag = IF i < Len(w) \div 2 THEN "FIRST_HALF" ELSE "SECOND_HALF"

\* the stems of a word whose windows repeat, so that keys were overwritten
C10_Witness ==
    /\ lpc = "learning"
    /\ row.Word = <<"A", "A", "A", "A", "A">>
    /\ Len(word_stems) = 6


\* the table holds an entry for the word under the key with positive weight
PositiveEntry(table, key, word) ==
    /\ DictHas(table, key)
    /\ \E n \in 1..Len(DictGet(table, key)) :
          DictGet(table, key)[n].word = word /\ DictGet(table, key)[n].freq > 0

\* a row of a word with positive frequency has just been learned
GoodRowLearned ==
    nrows > 0 /\ row.numeric /\ row.Frequency > 0 /\ Len(row.Word) > 0

\* right after such a row, every stem key of its word lists the word
RowListed ==
    (eta = 0 /\ GoodRowLearned) =>
        \A n \in 1..Len(word_stems) : PositiveEntry(assoc, word_stems[n], row.Word)

\* an entry of positive weight is still there after the next step
EntriesKept ==
    \A n \in 1..Len(assoc) : \A m \in 1..Len(assoc[n].val) :
        assoc[n].val[m].freq > 0 => PositiveEntry(assoc', assoc[n].key, assoc[n].val[m].word)

\* C11: with eta = 0, for every corpus word of positive frequency and every
\* stem key extracted from it the table holds an entry for the word under
\* that key with positive weight: the entries are there right after the
\* word's row and no later row or the normalisation removes them, so a key
\* shared by two words lists both.
C11_EveryStemLearned == [](RowListed) /\ [][EntriesKept]_vars

\* two different words of positive frequency learned with eta = 0, and a
\* stem key that lists both
C11_Witness ==
    /\ eta = 0
    /\ GoodRowLearned
    /\ \E n \in 1..Len(assoc) : \E m \in 1..Len(assoc[n].val) :
          /\ assoc[n].val[m].word # row.Word
          /\ assoc[n].val[m].freq > 0
          /\ PositiveEntry(assoc, assoc[n].key, row.Word)
          /\ \E k \in 1..Len(word_stems) : word_stems[k] = assoc[n].key


\* the letters of the words of the corpus rows
RowLetters == {"A", "B"}

\* a malformed row: a Frequency that is no number, or a word with a
\* character that is no letter
Malformed(r) == ~r.numeric \/ \E i \in 1..Len(r.Word) : r.Word[i] \notin RowLetters

\* C13 as claimed: when a corpus row is malformed (a frequency that is not
\* a number, or a word containing a non-alphabetic character)
\* learn_words_from_corpus adds no association for that row, leaves the table
\* as it was before the row, and goes on to learn the following rows.
C13_MalformedRowSkipped ==
    [][(nrows' = nrows + 1 /\ Malformed(row')) => (assoc' = assoc /\ lpc' = "learning")]_vars


\* the weight of the word's entry under the key, 0 without an entry
WeightOf(table, key, word) ==
    IF DictHas(table, key) /\ HasWord(DictGet(table, key), word)
    THEN LET entries == DictGet(table, key)
         IN  entries[CHOOSE n \in 1..Len(entries) : entries[n].word = word].freq
    ELSE 0

\* C17 as claimed: for a stem key recorded at 0-based offset o of a word
\* with frequency f, forming the association adds f * decay_rate^o to the
\* entry's weight (position = o + 1), so a stem at offset 0 contributes
\* exactly f and no single contribution exceeds f (a stem whose draw failed
\* contributes nothing).
C17_WeightDecaysFromOffset ==
    [][(nrows' = nrows + 1 /\ row'.numeric /\ Len(row'.Word) > 0) =>
          LET stems == extract_word_stems(row'.Word)
              f == row'.Frequency
          IN  \A n \in 1..Len(stems) :
                  LET added == WeightOf(assoc', stems[n].key, row'.Word)
                                 - WeightOf(assoc, stems[n].key, row'.Word)
                  IN  /\ added \in {0, attention_weight(f, stems[n].val + 1)}
                      /\ added <= attention_weight(f, 1)]_vars

====
